---- MODULE Spec2Model ----
(***************************************************************************)
(* Extension loading of ChattyBoi: ExtensionHelper.get_metadata,           *)
(* load_order, load and load_all (chattyboi/extension_helper.py), the      *)
(* Extension handle (chattyboi/extension.py) and the lookup API            *)
(* get_extension (extapi.py), over one profile session; the storage        *)
(* directory of an extension (Extension.storage_path, profiles.py); and    *)
(* the revision of ExtensionHelper in classes/extension_helper.py, the one *)
(* that knows the manifest key `supports`.                                 *)
(*                                                                         *)
(* Python lists that the code only reads through `in`, set(...) or a set   *)
(* display (requires, implements) are modelled as sets.  A dict is a       *)
(* function together with the order in which its keys were first inserted. *)
(***************************************************************************)
EXTENDS Integers, Sequences, FiniteSets, TLC

\* ----------------------------------------------------------------- bounds
\* The identity strings manifests and callers may use.
Ids == {"a", "b", "c"}

\* The extension directories a profile may list; the i-th loaded manifest is
\* ExtensionDirs[i]/manifest.toml, so a batch holds at most Len(ExtensionDirs)
\* descriptors and every order of a batch is some assignment of manifests.
ExtensionDirs == <<"core", "plugin">>

\* At most this many entries in a manifest's requires list.
MaxRequires == 2

\* At most this many add_alias calls in a session.
MaxAliasCalls == 1

\* How many times load_order is run on one batch.
MaxRuns == 2

\* At most this many rows in the table user_info.
MaxUsers == 2

\* Python's None as the result of get_extension: no index of state.extensions.
None == 0

\* Python's None as the value of ApplicationState._profile.
NoProfile == "None"

\* The ready signal with no slot connected, not emitted.
NoReady == [connected |-> {}, emitted |-> FALSE, ran |-> {}]

VARIABLES
    files,       \* files[i]: the parsed TOML document of ExtensionDirs[i]/manifest.toml
    pc,          \* where load_all is: "start", "loading", "exec", "done", "raised"
    error,       \* the exception load_all raised, kind "none" while it has not
    order,       \* the paths load_order returned
    pos,         \* index in order of the path load_all's for loop is at
    extensions,  \* state.extensions: the registry, a list of Extension objects
    last,        \* the most recent API call and what it returned
    calls,       \* number of add_alias calls made, of load_order runs repeated
    storage,     \* the directories that exist under the profile's directory
    profile,     \* ApplicationState._profile of the monolithic revision
    ready,       \* the ready signal: the slots connected to it, whether it was emitted, the slots run
    users        \* the rows of the table user_info, users[rowid] the nicknames of the row

vars == <<files, pc, error, order, pos, extensions, last, calls, storage, profile, ready, users>>

\* ------------------------------------------------------------- manifests
ManifestKeys == {"name", "source", "requires", "implements"}

RequiresLists == {r \in SUBSET Ids : Cardinality(r) <= MaxRequires}
\* An implements list declares at most one identity.
ImplementsLists == {{}} \cup {{i} : i \in Ids}

\* A TOML document: the keys it declares and their values (the value of an
\* undeclared key is never read).
Doc(keys, name, source, requires, implements) ==
    [keys |-> keys, name |-> name, source |-> source,
     requires |-> requires, implements |-> implements]

\* Manifests declaring both identity keys.
ValidDocs ==
    {Doc(ManifestKeys, n, s, r, i) :
        n \in Ids, s \in Ids, r \in RequiresLists, i \in ImplementsLists}

\* Manifests lacking name, source or both (and declaring nothing else).
InvalidDocs ==
    {Doc({"source"}, "", s, {}, {}) : s \in Ids}
        \cup {Doc({"name"}, n, "", {}, {}) : n \in Ids}
        \cup {Doc({}, "", "", {}, {})}

\* Sequences over S of length at most n.
SeqsUpTo(S, n) == UNION {[1..k -> S] : k \in 0..n}

\* paths = list(Path('./extensions') / name for name in profile.extensions)
paths(fs) == [i \in 1..Len(fs) |-> ExtensionDirs[i]]

\* get_metadata with a default name among its defaults.
get_metadata_defaulting_name(doc, use_defaults) ==
    LET defaults == IF use_defaults THEN {"name", "requires", "implements"} ELSE {}
        keys == defaults \cup doc.keys
        metadata ==
            [keys |-> keys,
             name |-> IF "name" \in doc.keys THEN doc.name ELSE "Unknown",
             source |-> doc.source,
             requires |-> IF "requires" \in doc.keys THEN doc.requires ELSE {},
             implements |-> IF "implements" \in doc.keys THEN doc.implements ELSE {}]
    IN  [raises |-> ~({"name", "source"} \subseteq keys), metadata |-> metadata]

\* ExtensionHelper.get_metadata: the defaults overlaid by the parsed document;
\* raises when name or source is not a key of the result.
get_metadata(doc, use_defaults) ==
    LET defaults == IF use_defaults THEN {"requires", "implements"} ELSE {}
        keys == defaults \cup doc.keys
        metadata ==
            [keys |-> keys,
             name |-> doc.name,
             source |-> doc.source,
             requires |-> IF "requires" \in doc.keys THEN doc.requires ELSE {},
             implements |-> IF "implements" \in doc.keys THEN doc.implements ELSE {}]
    IN  [raises |-> ~({"name", "source"} \subseteq keys), metadata |-> metadata]

\* metadata = [self.get_metadata(fp / 'manifest.toml') for fp in paths]
metadata_of(fs) == [i \in 1..Len(fs) |-> get_metadata(fs[i], TRUE).metadata]

\* The first manifest whose get_metadata raises, 0 when none does.
first_bad_manifest(fs) ==
    LET bad == {i \in 1..Len(fs) : get_metadata(fs[i], TRUE).raises}
    IN  IF bad = {} THEN 0 ELSE CHOOSE i \in bad : \A j \in bad : i <= j

\* ---------------------------------------------------------------- dicts
\* A dict comprehension {md[key]: ... for md in metadata}: a later item with
\* the same key replaces the value and keeps the key's place.
last_with(md, key, k) ==
    CHOOSE i \in DOMAIN md : md[i][key] = k /\ \A j \in DOMAIN md : md[j][key] = k => j <= i

first_with(md, key, k) ==
    CHOOSE i \in DOMAIN md : md[i][key] = k /\ \A j \in DOMAIN md : md[j][key] = k => i <= j

\* implementations = {md['source']: {md['source']} | set(md['implements']) for md in metadata}
implementations(md) ==
    [s \in {md[i].source : i \in DOMAIN md} |->
        {s} \cup md[last_with(md, "source", s)].implements]

\* implemented without the sources: the implements entries alone.
implemented_without_sources(md) ==
    UNION {md[i].implements : i \in DOMAIN md}

\* implemented = set(); for i in implementations.values(): implemented.update(i)
implemented(md) ==
    LET impl == implementations(md) IN UNION {impl[s] : s \in DOMAIN impl}

\* dependencies = {md['name']: set(md['requires']) for md in metadata}
dependencies(md) ==
    [n \in {md[i].name : i \in DOMAIN md} |-> md[last_with(md, "name", n)].requires]

\* The first key of dependencies.items() with a dependency that is not
\* implemented; "" when there is none.
first_unsatisfied(md) ==
    LET deps == dependencies(md)
        done == implemented(md)
        bad == {n \in DOMAIN deps : ~(deps[n] \subseteq done)}
    IN  IF bad = {} THEN ""
        ELSE CHOOSE n \in bad :
                \A m \in bad : first_with(md, "name", n) <= first_with(md, "name", m)

\* The pairs of itertools.product(implementations.keys(), repeat=2) with
\* left != right whose implementations intersect.
conflicting(md) ==
    LET impl == implementations(md)
    IN  {p \in (DOMAIN impl) \X (DOMAIN impl) : p[1] # p[2] /\ impl[p[1]] \cap impl[p[2]] # {}}

\* The first such pair in product order.
first_conflict(md) ==
    LET pairs == conflicting(md)
    IN  CHOOSE p \in pairs :
        \A q \in pairs :
            \/ first_with(md, "source", p[1]) < first_with(md, "source", q[1])
            \/ /\ p[1] = q[1]
               /\ first_with(md, "source", p[2]) <= first_with(md, "source", q[2])

\* ------------------------------------------------------------ load_order
\* An iterable of (path, info) pairs.  A list can be iterated again; the
\* iterator zip() returns is exhausted by its first full iteration.
list_of(ps, md) == [items |-> [i \in 1..Len(ps) |-> <<ps[i], md[i]>>], exhausted |-> FALSE]
zip(ps, md) == [items |-> [i \in 1..Len(ps) |-> <<ps[i], md[i]>>], exhausted |-> TRUE]

\* What one more `for ... in extensions` yields after a full iteration.
iterate_again(it) == IF it.exhausted THEN <<>> ELSE it.items

\* any(req == info_v['source'] or req in info_v['implements'] for req in info_u['requires'])
depends_on(info_u, info_v) ==
    \E req \in info_u.requires : req = info_v.source \/ req \in info_v.implements

\* The inner loop appending path_v once for every entry of requires that
\* info_v satisfies.
appended_per_requirement(second, i) ==
    LET Matching(e) == {req \in second[i][2].requires :
                            req = e[2].source \/ req \in e[2].implements}
        RECURSIVE from(_)
        from(j) ==
            IF j > Len(second) THEN <<>>
            ELSE (IF second[j][1] # second[i][1]
                  THEN [k \in 1..Cardinality(Matching(second[j])) |-> second[j][1]]
                  ELSE <<>>) \o from(j + 1)
    IN  from(1)

\* The targets the double for loop appends to graph[path_u] for the i-th item
\* (path_u, info_u): every other item (path_v, info_v) that info_u depends on,
\* once, in the order of the iterable.
appended(second, i) ==
    LET Target(e) == e[1] # second[i][1] /\ depends_on(second[i][2], e[2])
        targets == SelectSeq(second, Target)
    IN  [k \in 1..Len(targets) |-> targets[k][1]]

\* graph[u] when the double for loop is over.
RECURSIVE edges(_, _, _)
edges(second, u, i) ==
    IF i > Len(second) THEN <<>>
    ELSE (IF second[i][1] = u THEN appended(second, i) ELSE <<>>) \o edges(second, u, i + 1)

\* list.remove(n): the list without its first n.
remove(list, n) ==
    LET first == CHOOSE k \in DOMAIN list : list[k] = n /\ \A j \in 1..(k - 1) : list[j] # n
    IN  SubSeq(list, 1, first - 1) \o SubSeq(list, first + 1, Len(list))

\* The pass of the while loop without queue.append(m).
pop_without_append(nodes, graph, queue, ordered) ==
    LET n == queue[Len(queue)]
        Has(m) == \E k \in DOMAIN graph[m] : graph[m][k] = n
    IN  [graph |-> [m \in DOMAIN graph |-> IF Has(m) THEN remove(graph[m], n) ELSE graph[m]],
         queue |-> SubSeq(queue, 1, Len(queue) - 1),
         order |-> Append(ordered, n)]

\* One pass of the while loop of Kahn's algorithm: queue.pop() takes the last
\* element n, n is appended to the order, n is removed from the edges of
\* every node that has it, and those left without edges are appended to the
\* queue, in the dict's order.
pop(nodes, graph, queue, ordered) ==
    LET n == queue[Len(queue)]
        Has(m) == \E k \in DOMAIN graph[m] : graph[m][k] = n
        removed == [m \in DOMAIN graph |-> IF Has(m) THEN remove(graph[m], n) ELSE graph[m]]
        Ready(m) == Has(m) /\ removed[m] = <<>>
    IN  [graph |-> removed,
         queue |-> SubSeq(queue, 1, Len(queue) - 1) \o SelectSeq(nodes, Ready),
         order |-> Append(ordered, n)]

\* The while loop, to its end.
RECURSIVE kahn(_, _, _, _)
kahn(nodes, graph, queue, ordered) ==
    IF queue = <<>> THEN [graph |-> graph, order |-> ordered]
    ELSE LET next == pop(nodes, graph, queue, ordered)
         IN  kahn(nodes, next.graph, next.queue, next.order)

\* The keys of graph, in the order of their insertion.
keys_of(exts) == [i \in 1..Len(exts.items) |-> exts.items[i][1]]

\* graph = {path: [] for path, _ in extensions}, then the double for loop over
\* what the iterable still yields.
graph_of(exts) ==
    [u \in {exts.items[i][1] : i \in 1..Len(exts.items)} |-> edges(iterate_again(exts), u, 1)]

\* queue = [u for u, v in graph.items() if len(v) == 0]
queue_of(exts) ==
    LET graph == graph_of(exts)
        NoEdges(u) == graph[u] = <<>>
    IN  SelectSeq(keys_of(exts), NoEdges)

\* ExtensionHelper.load_order: [raises, order, graph].
load_order(exts) ==
    LET result == kahn(keys_of(exts), graph_of(exts), queue_of(exts), <<>>)
    IN  [raises |-> \E u \in DOMAIN result.graph : result.graph[u] # <<>>,
         order |-> result.order,
         graph |-> result.graph]

\* ------------------------------------------------------------- Extension
\* hashlib.md5(bytes(source, "utf-8")).hexdigest(): a function of source alone.
get_hash(source) == "md5(" \o source \o ")"

\* Extension(metadata, hash, module) with module named 'cbext_' + hash and
\* loaded from path / '__init__.py'.
Extension(path, metadata) ==
    [name |-> metadata.name,
     source |-> metadata.source,
     requires |-> metadata.requires,
     implements |-> metadata.implements,
     hash |-> get_hash(metadata.source),
     module |-> "cbext_" \o get_hash(metadata.source),
     path |-> path,
     _aliases |-> {}]

\* Extension.aliases without the name.
aliases_without_name(ext) == {ext.source, ext.module} \cup ext.implements \cup ext._aliases

\* Extension.aliases
aliases(ext) == {ext.name, ext.source, ext.module} \cup ext.implements \cup ext._aliases

\* extapi.get_extension: the first extension of state.extensions whose aliases
\* hold the identifier, as its index; None when there is none.
get_extension(identifier) ==
    LET found == {k \in 1..Len(extensions) : identifier \in aliases(extensions[k])}
    IN  IF found = {} THEN None ELSE CHOOSE k \in found : \A j \in found : k <= j

\* What callers may pass to get_extension: identities and module names.
Identifiers == Ids \cup {"cbext_" \o get_hash(s) : s \in Ids}

\* ------------------------------------------------------------- load_all
NoError == [kind |-> "none", who |-> {}, what |-> {}]
NoCall == [op |-> "none", id |-> "", res |-> None]

\* metadata[paths.index(path)]
metadata_at(path) ==
    metadata_of(files)[CHOOSE i \in 1..Len(files) :
        paths(files)[i] = path /\ \A j \in 1..Len(files) : paths(files)[j] = path => i <= j]

\* What load_all raises before its for loop: get_metadata's error for the
\* first bad manifest, else an unsatisfied dependency, else a duplicate
\* implementation, else load_order's dependency cycle; "none" when it gets to
\* the for loop.
load_all_raises(fs) ==
    LET md == metadata_of(fs)
    IN  IF first_bad_manifest(fs) # 0 THEN "metadata"
        ELSE IF first_unsatisfied(md) # "" THEN "unsatisfied"
        ELSE IF conflicting(md) # {} THEN "duplicate"
        ELSE IF load_order(zip(paths(fs), md)).raises THEN "cycle"
        ELSE "none"

\* The exception of that kind, with what its message names.
load_all_error(fs, kind, dep) ==
    LET md == metadata_of(fs)
    IN  CASE kind = "metadata" ->
                [kind |-> kind, who |-> {paths(fs)[first_bad_manifest(fs)]}, what |-> {}]
          [] kind = "unsatisfied" ->
                [kind |-> kind, who |-> {first_unsatisfied(md)}, what |-> {dep}]
          [] kind = "duplicate" ->
                [kind |-> kind,
                 who |-> {first_conflict(md)[1], first_conflict(md)[2]},
                 what |-> implementations(md)[first_conflict(md)[1]]
                            \cap implementations(md)[first_conflict(md)[2]]]
          [] kind = "cycle" ->
                [kind |-> kind,
                 who |-> DOMAIN load_order(zip(paths(fs), md)).graph,
                 what |-> {}]

\* The dependencies the unsatisfied-dependency error may name: the loop over
\* a set meets the unsatisfied ones of the first such extension in any order.
unsatisfied_deps(fs) ==
    LET md == metadata_of(fs)
    IN  IF load_all_raises(fs) = "unsatisfied"
        THEN dependencies(md)[first_unsatisfied(md)] \ implemented(md)
        ELSE {""}

\* load_all loading its first extension before the checks: a batch that fails
\* a check leaves that extension registered.
load_all_checking_late ==
    /\ pc = "start"
    /\ LET kind == load_all_raises(files)
       IN  IF kind # "none"
           THEN /\ pc' = "raised"
                /\ \E dep \in unsatisfied_deps(files) :
                       error' = load_all_error(files, kind, dep)
                /\ extensions' =
                       IF kind = "metadata" THEN extensions
                       ELSE Append(extensions, Extension(paths(files)[1], metadata_of(files)[1]))
                /\ UNCHANGED order
           ELSE /\ pc' = "loading"
                /\ order' = load_order(zip(paths(files), metadata_of(files))).order
                /\ UNCHANGED <<error, extensions>>
    /\ pos' = 1
    /\ UNCHANGED <<users, profile, ready, storage, files, last, calls>>

\* load_all up to its for loop: read the manifests, check the dependencies,
\* check for duplicate implementations, compute the load order.
load_all ==
    /\ pc = "start"
    /\ LET kind == load_all_raises(files)
       IN  IF kind # "none"
           THEN /\ pc' = "raised"
                /\ \E dep \in unsatisfied_deps(files) :
                       error' = load_all_error(files, kind, dep)
                /\ UNCHANGED order
           ELSE /\ pc' = "loading"
                /\ order' = load_order(zip(paths(files), metadata_of(files))).order
                /\ UNCHANGED error
    /\ pos' = 1
    /\ UNCHANGED <<users, profile, ready, storage, files, extensions, last, calls>>

\* ExtensionHelper.load assigning a list of the one extension to
\* state.extensions instead of appending to it.
load_replacing ==
    /\ pc = "loading"
    /\ pos <= Len(order)
    /\ extensions' = <<Extension(order[pos], metadata_at(order[pos]))>>
    /\ pc' = "exec"
    /\ last' = NoCall
    /\ UNCHANGED <<users, profile, ready, storage, files, error, order, pos, calls>>

\* ExtensionHelper.load up to exec_module: the Extension is appended to
\* state.extensions before its module is executed.
load ==
    /\ pc = "loading"
    /\ pos <= Len(order)
    /\ extensions' = Append(extensions, Extension(order[pos], metadata_at(order[pos])))
    /\ pc' = "exec"
    /\ last' = NoCall
    /\ UNCHANGED <<users, profile, ready, storage, files, error, order, pos, calls>>

\* spec.loader.exec_module(module) returns: the for loop goes on.
exec_module_returns ==
    /\ pc = "exec"
    /\ pc' = "loading"
    /\ pos' = pos + 1
    /\ last' = NoCall
    /\ UNCHANGED <<users, profile, ready, storage, files, error, order, extensions, calls>>

\* exec_module raises and the extensions registered so far are dropped.
exec_module_raises_rollback ==
    /\ pc = "exec"
    /\ pc' = "raised"
    /\ error' = [kind |-> "entrypoint", who |-> {order[pos]}, what |-> {}]
    /\ extensions' = <<>>
    /\ last' = NoCall
    /\ UNCHANGED <<users, profile, ready, storage, files, order, pos, calls>>

\* spec.loader.exec_module(module) raises: nothing catches it in load or
\* load_all, so load_all ends with that exception.
exec_module_raises ==
    /\ pc = "exec"
    /\ pc' = "raised"
    /\ error' = [kind |-> "entrypoint", who |-> {order[pos]}, what |-> {}]
    /\ last' = NoCall
    /\ UNCHANGED <<users, profile, ready, storage, files, order, pos, extensions, calls>>

\* The for loop of load_all is over: load_all returns.
load_all_returns ==
    /\ pc = "loading"
    /\ pos > Len(order)
    /\ pc' = "done"
    /\ UNCHANGED <<users, profile, ready, storage, files, error, order, pos, extensions, last, calls>>

\* ------------------------------------------------------------------ API
\* Extension code (inside its entry point, or later) or the host calls
\* get_extension(identifier).
get_extension_call(identifier) ==
    /\ pc \in {"exec", "done", "raised"}
    /\ last' = [op |-> "get_extension", id |-> identifier, res |-> get_extension(identifier)]
    /\ UNCHANGED <<users, profile, ready, storage, files, pc, error, order, pos, extensions, calls>>

\* add_alias with _aliases an attribute of the class, one set shared by every
\* Extension.
add_alias_shared(k, alias) ==
    /\ pc \in {"exec", "done", "raised"}
    /\ calls < MaxAliasCalls
    /\ k \in 1..Len(extensions)
    /\ extensions' = [j \in 1..Len(extensions) |->
                        [extensions[j] EXCEPT !._aliases = @ \cup {alias}]]
    /\ calls' = calls + 1
    /\ last' = [op |-> "add_alias", id |-> alias, res |-> k]
    /\ UNCHANGED <<users, profile, ready, storage, files, pc, error, order, pos>>

\* Extension.add_alias on the k-th registered extension: self._aliases.add(alias),
\* whatever the other extensions carry.
add_alias(k, alias) ==
    /\ pc \in {"exec", "done", "raised"}
    /\ calls < MaxAliasCalls
    /\ k \in 1..Len(extensions)
    /\ extensions' = [extensions EXCEPT ![k]._aliases = @ \cup {alias}]
    /\ calls' = calls + 1
    /\ last' = [op |-> "add_alias", id |-> alias, res |-> k]
    /\ UNCHANGED <<users, profile, ready, storage, files, pc, error, order, pos>>

\* ------------------------------------------ classes/extension_helper.py
\* The revision of ExtensionHelper that knows the manifest key `supports`.
\* A parsed manifest of this revision is the dict toml.load returns: a
\* function from the keys the manifest declares to their values.
NoKeys == [key \in {} |-> ""]

\* The documents of docs, and those declaring key as well, with any of values.
Declaring(docs, key, values) == docs \cup {(key :> v) @@ d : d \in docs, v \in values}

\* get_metadata of this revision with the update the other way round: the
\* defaults replace what the manifest declares.
classes_get_metadata_defaults_win(doc, use_defaults) ==
    LET defaults ==
            IF use_defaults
            THEN [author |-> "Unknown",
                  version |-> "<unknown>",
                  license |-> "No license",
                  summary |-> "No summary provided.",
                  description |-> "No description provided.",
                  requires |-> {},
                  supports |-> {},
                  implements |-> {}]
            ELSE NoKeys
        metadata == defaults @@ doc
    IN  [raises |-> ~({"name", "source"} \subseteq DOMAIN metadata), metadata |-> metadata]

\* get_metadata of this revision: metadata = {defaults} if use_defaults else
\* {}; metadata.update(toml.load(fp)); raises when name or source is not a
\* key of the result.
classes_get_metadata(doc, use_defaults) ==
    LET defaults ==
            IF use_defaults
            THEN [author |-> "Unknown",
                  version |-> "<unknown>",
                  license |-> "No license",
                  summary |-> "No summary provided.",
                  description |-> "No description provided.",
                  requires |-> {},
                  supports |-> {},
                  implements |-> {}]
            ELSE NoKeys
        metadata == doc @@ defaults
    IN  [raises |-> ~({"name", "source"} \subseteq DOMAIN metadata), metadata |-> metadata]

\* What load_all of this revision raises.  The list comprehension reads every
\* manifest first.  The first pass of the populating loop then collects
\* e.implements, finds no conflict with the still empty `implemented`, and
\* ends in `e.requires += e.metadata['requires']`, a set += list, which is a
\* TypeError: the dependency check, the `supports` loop and the topological
\* sort (lines 100-133) are reached by the empty batch alone.
classes_load_all_raises(fs) ==
    IF \E i \in 1..Len(fs) : classes_get_metadata(fs[i], TRUE).raises THEN "metadata"
    ELSE IF Len(fs) = 0 THEN "none"
    ELSE LET e == classes_get_metadata(fs[1], TRUE).metadata
             e_implements == {e.name, e.source} \cup e.implements
             implemented_so_far == {}
         IN  IF e_implements \cap implemented_so_far # {} THEN "duplicate" ELSE "TypeError"

\* load_all of this revision, from the call to its end: for the empty batch
\* `ordered` is empty and nothing is loaded.
classes_load_all ==
    /\ pc = "start"
    /\ LET kind == classes_load_all_raises(files)
       IN  IF kind = "none"
           THEN /\ pc' = "done"
                /\ UNCHANGED error
           ELSE /\ pc' = "raised"
                /\ error' = [kind |-> kind, who |-> {}, what |-> {}]
    /\ UNCHANGED <<users, profile, ready, storage, files, order, pos, extensions, last, calls>>

\* The data attributes and properties of a Profile: those __init__ sets, and
\* the properties the class defines.
profile_attributes ==
    {"path", "properties", "connection", "database_path", "extension_data_path",
     "name", "created_on", "extensions", "note"}

\* profile.extension_data_path = path / EXTENSION_DATA_DIRECTORY, relative to
\* the profile's directory.
extension_data_path == "extension_data"

\* Extension.storage_path read on the k-th registered extension.  The getter
\* reads state.state.profile.extension_storage_path, which is an
\* AttributeError when the profile has no such attribute; otherwise the
\* directory <that path>/<hash> is made when it does not exist, the next
\* statement logs through the name `logger`, which extension.py never binds
\* (a NameError), and only a call that found the directory returns the path.
storage_path(k) ==
    /\ pc \in {"exec", "done", "raised"}
    /\ k \in 1..Len(extensions)
    /\ IF "extension_storage_path" \notin profile_attributes
       THEN /\ last' = [op |-> "storage_path", id |-> k, res |-> "AttributeError"]
            /\ UNCHANGED storage
       ELSE LET path == extension_data_path \o "/" \o extensions[k].hash
            IN  IF path \notin storage
                THEN /\ storage' = storage \cup {path}
                     /\ last' = [op |-> "storage_path", id |-> k, res |-> "NameError"]
                ELSE /\ last' = [op |-> "storage_path", id |-> k, res |-> path]
                     /\ UNCHANGED storage
    /\ UNCHANGED <<users, profile, ready, files, pc, error, order, pos, extensions, calls>>

\* ------------------------------------------------ load_order, step by step
\* The directories of a batch handed to load_order.
SchedulerDirs == <<"core", "plugin", "theme">>

\* The iterable load_order is given: the list its signature names, or the zip
\* object load_all passes.
iterable(kind, fs) ==
    IF kind = "list" THEN list_of(SubSeq(SchedulerDirs, 1, Len(fs)), metadata_of(fs))
    ELSE zip(SubSeq(SchedulerDirs, 1, Len(fs)), metadata_of(fs))

\* load_order up to its while loop: the graph and the queue are built.
load_order_enter(kind) ==
    /\ pc \in {"start", "ordered"}
    /\ pc = "ordered" => /\ calls < MaxRuns - 1
                         /\ kind = last.id
    /\ calls' = IF pc = "ordered" THEN calls + 1 ELSE calls
    /\ pc' = "order"
    /\ last' = [op |-> "load_order", id |-> kind,
                res |-> [built |-> graph_of(iterable(kind, files)),
                         graph |-> graph_of(iterable(kind, files)),
                         queue |-> queue_of(iterable(kind, files)),
                         order |-> <<>>]]
    /\ UNCHANGED <<users, profile, ready, storage, files, error, order, pos, extensions>>

\* One pass of the while loop, taking any element of the queue.
load_order_pop_any ==
    /\ pc = "order"
    /\ last.res.queue # <<>>
    /\ \E k \in DOMAIN last.res.queue :
         LET queue == SubSeq(last.res.queue, 1, k - 1)
                        \o SubSeq(last.res.queue, k + 1, Len(last.res.queue))
                        \o <<last.res.queue[k]>>
             next == pop(keys_of(iterable(last.id, files)),
                         last.res.graph, queue, last.res.order)
         IN  last' = [last EXCEPT !.res = [built |-> last.res.built, graph |-> next.graph,
                                           queue |-> next.queue, order |-> next.order]]
    /\ UNCHANGED <<users, profile, ready, storage, files, pc, error, order, pos, extensions, calls>>

\* One pass of the while loop.
load_order_pop ==
    /\ pc = "order"
    /\ last.res.queue # <<>>
    /\ LET next == pop(keys_of(iterable(last.id, files)),
                       last.res.graph, last.res.queue, last.res.order)
       IN  last' = [last EXCEPT !.res = [built |-> last.res.built, graph |-> next.graph,
                                         queue |-> next.queue, order |-> next.order]]
    /\ UNCHANGED <<users, profile, ready, storage, files, pc, error, order, pos, extensions, calls>>

\* The queue is empty and edges are left: RuntimeError, whose message prints
\* the graph dict, every key of it with the edges it still has.
load_order_raises ==
    /\ pc = "order"
    /\ last.res.queue = <<>>
    /\ \E u \in DOMAIN last.res.graph : last.res.graph[u] # <<>>
    /\ pc' = "raised"
    /\ error' = [kind |-> "cycle", who |-> DOMAIN last.res.graph, what |-> {}]
    /\ UNCHANGED <<users, profile, ready, storage, files, order, pos, extensions, last, calls>>

\* The queue is empty and no edge is left: the order is returned.
load_order_returns ==
    /\ pc = "order"
    /\ last.res.queue = <<>>
    /\ \A u \in DOMAIN last.res.graph : last.res.graph[u] = <<>>
    /\ pc' = "ordered"
    /\ order' = last.res.order
    /\ UNCHANGED <<users, profile, ready, storage, files, error, pos, extensions, last, calls>>

\* ------------------------------------------------------ profile selection
\* The profile directories the selection dialog offers.
ProfilePaths == {"profiles/default", "profiles/other"}

\* The setter of ApplicationState.profile storing whatever it is given.
profile_setter_overwriting(value) == [raises |-> FALSE, _profile |-> value]

\* The setter of ApplicationState.profile: [raises, _profile].
profile_setter(value) ==
    IF profile = NoProfile THEN [raises |-> FALSE, _profile |-> value]
    ELSE [raises |-> TRUE, _profile |-> profile]

\* profile_select_callback up to load_all: Profile(path), profile.initialize()
\* and state.state.profile = profile, on the state made by
\* ApplicationState.default().
profile_select_callback(path) ==
    /\ pc = "start"
    /\ profile = NoProfile
    /\ profile' = profile_setter(path)._profile
    /\ last' = [op |-> "set_profile", id |-> path,
                res |-> IF profile_setter(path).raises THEN "AttributeError" ELSE "stored"]
    /\ UNCHANGED <<users, ready, storage, files, pc, error, order, pos, extensions, calls>>

\* _state.extension_helper.load_all() of the callback.
callback_load_all == profile # NoProfile /\ load_all

\* A later assignment state().profile = value, by extension code or the host.
set_profile(value) ==
    /\ pc \in {"exec", "done", "ready", "raised"}
    /\ profile' = profile_setter(value)._profile
    /\ last' = [op |-> "set_profile", id |-> value,
                res |-> IF profile_setter(value).raises THEN "AttributeError" ELSE "stored"]
    /\ UNCHANGED <<users, ready, storage, files, pc, error, order, pos, extensions, calls>>

\* on_ready(coro) called by the entry point being executed: the slot is
\* connected to the ready signal (the monolithic revision connects it when
\* load_all has returned).
on_ready ==
    /\ pc = "exec"
    /\ ready' = [ready EXCEPT !.connected = @ \cup {order[pos]}]
    /\ UNCHANGED <<users, profile, storage, files, pc, error, order, pos, extensions, last, calls>>

\* The ready signal emitted whether load_all returned or raised.
ready_emit_in_any_case ==
    /\ pc \in {"done", "raised"}
    /\ pc' = IF pc = "done" THEN "ready" ELSE pc
    /\ ~ready.emitted
    /\ ready' = [ready EXCEPT !.emitted = TRUE, !.ran = ready.connected]
    /\ UNCHANGED <<users, profile, storage, files, error, order, pos, extensions, last, calls>>

\* The callback after load_all returned: the main window is made and
\* _state.ready.emit() runs the connected slots.
ready_emit ==
    /\ pc = "done"
    /\ pc' = "ready"
    /\ ready' = [ready EXCEPT !.emitted = TRUE, !.ran = ready.connected]
    /\ UNCHANGED <<users, profile, storage, files, error, order, pos, extensions, last, calls>>

\* ------------------------------------------------------------ user_info
\* Nicknames are strings, kept as the sequences of their characters: a letter
\* in either case and the backslash.
Characters == {"a", "A", "\\"}
Nicknames == {<<c>> : c \in Characters}

\* The lists of nicknames add_user is given.
NicknameLists == {<<n>> : n \in Nicknames} \cup {<<n, m>> : n, m \in Nicknames}

\* json.dumps of a string: the backslash is escaped, quotes are put around.
RECURSIVE escape(_)
escape(string) ==
    IF string = <<>> THEN <<>>
    ELSE (IF Head(string) = "\\" THEN <<"\\", "\\">> ELSE <<Head(string)>>) \o escape(Tail(string))

\* json.dumps of a list of strings, the text of the column nicknames.
RECURSIVE json_dumps_items(_)
json_dumps_items(list) ==
    IF list = <<>> THEN <<>>
    ELSE <<"\"">> \o escape(Head(list)) \o <<"\"">>
            \o (IF Len(list) > 1 THEN <<",", " ">> ELSE <<>>) \o json_dumps_items(Tail(list))
json_dumps(list) == <<"[">> \o json_dumps_items(list) \o <<"]">>

\* SQLite's LIKE compares ASCII letters without regard to case.
lower(character) == IF character = "A" THEN "a" ELSE character

\* text LIKE '%' || pattern || '%' for a pattern without wildcards.
like(text, pattern) ==
    \E i \in 0..(Len(text) - Len(pattern)) :
        \A k \in 1..Len(pattern) : lower(text[i + k]) = lower(pattern[k])

\* DatabaseWrapper.find_user: the rowid of the first row whose nicknames are
\* LIKE %"nickname"%, None when fetchone() returns no row.
find_user(nickname) ==
    LET found == {rowid \in 1..Len(users) :
                    like(json_dumps(users[rowid]), <<"\"">> \o nickname \o <<"\"">>)}
    IN  IF found = {} THEN None ELSE CHOOSE rowid \in found : \A other \in found : rowid <= other

\* DatabaseWrapper.add_user
add_user(nicknames) ==
    /\ IF \E k \in 1..Len(nicknames) : find_user(nicknames[k]) # None
       THEN /\ last' = [op |-> "add_user", id |-> nicknames,
                        res |-> [raises |-> TRUE, rowid |-> None]]
            /\ UNCHANGED users
       ELSE /\ Len(users) < MaxUsers
            /\ users' = Append(users, nicknames)
            /\ last' = [op |-> "add_user", id |-> nicknames,
                        res |-> [raises |-> FALSE, rowid |-> Len(users) + 1]]
    /\ UNCHANGED <<profile, ready, storage, files, pc, error, order, pos, extensions, calls>>

\* DatabaseWrapper.find_or_add_user:
\* self.find_user(nickname) or User(self, self.add_user([nickname])).
find_or_add_user(nickname) ==
    /\ IF find_user(nickname) # None
       THEN /\ last' = [op |-> "find_or_add_user", id |-> <<nickname>>,
                        res |-> [raises |-> FALSE, rowid |-> find_user(nickname)]]
            /\ UNCHANGED users
       ELSE /\ Len(users) < MaxUsers
            /\ users' = Append(users, <<nickname>>)
            /\ last' = [op |-> "find_or_add_user", id |-> <<nickname>>,
                        res |-> [raises |-> FALSE, rowid |-> Len(users) + 1]]
    /\ UNCHANGED <<profile, ready, storage, files, pc, error, order, pos, extensions, calls>>

\* ------------------------------------------------------------- readers
\* A caller reads the manifest files[1] with ExtensionHelper.get_metadata,
\* defaults enabled or not.
get_metadata_call(use_defaults) ==
    /\ pc = "start"
    /\ Len(files) = 1
    /\ last' = [op |-> "get_metadata", id |-> use_defaults,
                res |-> get_metadata(files[1], use_defaults)]
    /\ UNCHANGED <<users, profile, ready, storage, files, pc, error, order, pos, extensions, calls>>

\* A caller reads the manifest files[1] with get_metadata of the classes
\* revision, defaults enabled or not.
classes_get_metadata_call(use_defaults) ==
    /\ pc = "start"
    /\ Len(files) = 1
    /\ last' = [op |-> "classes_get_metadata", id |-> use_defaults,
                res |-> classes_get_metadata(files[1], use_defaults)]
    /\ UNCHANGED <<users, profile, ready, storage, files, pc, error, order, pos, extensions, calls>>

\* ------------------------------------------------------- specifications
Start ==
    /\ pc = "start"
    /\ error = NoError
    /\ order = <<>>
    /\ pos = 1
    /\ extensions = <<>>
    /\ last = NoCall
    /\ calls = 0
    /\ storage = {}
    /\ profile = NoProfile
    /\ ready = NoReady
    /\ users = <<>>

\* A profile listing any batch of manifests.
Init ==
    /\ files \in SeqsUpTo(ValidDocs \cup InvalidDocs, Len(ExtensionDirs))
    /\ Start

Next ==
    \/ load_all
    \/ load
    \/ exec_module_returns
    \/ exec_module_raises
    \/ load_all_returns

Spec == Init /\ [][Next]_vars

\* A session in which extension code and the host use the lookup API; what a
\* manifest requires plays no part in the registry, so these manifests
\* require nothing.
InitApi ==
    /\ files \in SeqsUpTo({d \in ValidDocs : d.requires = {}}, Len(ExtensionDirs))
    /\ Start

NextApi ==
    \/ load_all
    \/ load
    \/ exec_module_returns
    \/ exec_module_raises
    \/ load_all_returns
    \/ \E identifier \in Identifiers : get_extension_call(identifier)
    \/ \E k \in 1..Len(ExtensionDirs), alias \in Ids : add_alias(k, alias)

SpecApi == InitApi /\ [][NextApi]_vars

\* A session in which extension code and the host read storage_path.
NextStorage ==
    \/ load_all
    \/ load
    \/ exec_module_returns
    \/ exec_module_raises
    \/ load_all_returns
    \/ \E k \in 1..Len(ExtensionDirs) : storage_path(k)

SpecStorage == InitApi /\ [][NextStorage]_vars

\* One manifest declaring any of the keys, read by get_metadata.
ReaderDocs ==
    {Doc(keys, n, s, r, i) :
        keys \in SUBSET ManifestKeys, n \in Ids, s \in Ids,
        r \in RequiresLists, i \in ImplementsLists}

InitReader ==
    /\ files \in {<<doc>> : doc \in ReaderDocs}
    /\ Start

NextReader == \E use_defaults \in BOOLEAN : get_metadata_call(use_defaults)

SpecReader == InitReader /\ [][NextReader]_vars

\* One manifest of the classes revision declaring any of the ten keys: the
\* texts with one value each, the lists empty or with one entry.
DisplayKeys == <<"author", "version", "license", "summary", "description">>
ListKeys == <<"requires", "supports", "implements">>

RECURSIVE DeclaringAll(_, _, _)
DeclaringAll(docs, keys, values) ==
    IF keys = <<>> THEN docs
    ELSE DeclaringAll(Declaring(docs, Head(keys), values), Tail(keys), values)

ManifestDocs ==
    DeclaringAll(
        DeclaringAll(Declaring(Declaring({NoKeys}, "name", {"a"}), "source", {"b"}),
                     DisplayKeys, {"declared"}),
        ListKeys, {{}, {"a"}})

InitManifest ==
    /\ files \in {<<doc>> : doc \in ManifestDocs}
    /\ Start

NextManifest == \E use_defaults \in BOOLEAN : classes_get_metadata_call(use_defaults)

SpecManifest == InitManifest /\ [][NextManifest]_vars

\* The document doc declaring a supports list as well.
Supporting(doc, supports) ==
    ("supports" :> supports) @@ [doc EXCEPT !.keys = @ \cup {"supports"}]

\* A supports list declares at most one identity.
SupportsLists == {{}} \cup {{i} : i \in Ids}

\* A profile listing manifests that declare a supports list and require
\* nothing, loaded by the package revision.
InitSupports ==
    /\ files \in SeqsUpTo({Supporting(d, s) : d \in {v \in ValidDocs : v.requires = {}},
                                              s \in SupportsLists},
                          Len(ExtensionDirs))
    /\ Start

SpecSupports == InitSupports /\ [][Next]_vars

\* A profile listing manifests of the revision with `supports`: each declares
\* its name, may declare its source, and may declare a supports list.
ClassesDocs ==
    Declaring(Declaring({[name |-> n] : n \in Ids}, "source", Ids),
              "supports", {{}} \cup {{i} : i \in Ids})

InitClasses ==
    /\ files \in SeqsUpTo(ClassesDocs, Len(ExtensionDirs))
    /\ Start

NextClasses == classes_load_all

SpecClasses == InitClasses /\ [][NextClasses]_vars

\* Batches handed to load_order: up to three descriptors whose capabilities
\* (name, source, implements) are pairwise disjoint, requiring anything; no
\* descriptor lists its own name or source among its implements.
Identities == {id \in Ids \X Ids \X ImplementsLists : id[3] \cap {id[1], id[2]} = {}}
capabilities_of(identity) == {identity[1], identity[2]} \cup identity[3]
IdentitySeqs ==
    {q \in SeqsUpTo(Identities, Len(SchedulerDirs)) :
        \A i, j \in 1..Len(q) : i # j => capabilities_of(q[i]) \cap capabilities_of(q[j]) = {}}
SchedulerBatches ==
    UNION {{[k \in 1..Len(q) |-> Doc(ManifestKeys, q[k][1], q[k][2], r[k], q[k][3])] :
                r \in [1..Len(q) -> RequiresLists]} : q \in IdentitySeqs}

InitScheduler ==
    /\ files \in SchedulerBatches
    /\ Start

NextScheduler ==
    \/ \E kind \in {"list", "zip"} : load_order_enter(kind)
    \/ load_order_pop
    \/ load_order_raises
    \/ load_order_returns

SpecScheduler == InitScheduler /\ [][NextScheduler]_vars

\* The scheduler keeps running until it returns or raises.
FairScheduler == SpecScheduler /\ WF_vars(NextScheduler)

\* A session from the selection of a profile to the ready signal, with
\* extension code that registers slots and assigns to the profile.
NextHost ==
    \/ \E path \in ProfilePaths : profile_select_callback(path)
    \/ callback_load_all
    \/ load
    \/ exec_module_returns
    \/ exec_module_raises
    \/ load_all_returns
    \/ on_ready
    \/ ready_emit
    \/ \E value \in ProfilePaths \cup {NoProfile} : set_profile(value)

SpecHost == InitApi /\ [][NextHost]_vars

\* A session of calls on the database of a profile whose table is empty.
InitDatabase ==
    /\ files = <<>>
    /\ Start

NextDatabase ==
    \/ \E nicknames \in NicknameLists : add_user(nicknames)
    \/ \E nickname \in Nicknames : find_or_add_user(nickname)

SpecDatabase == InitDatabase /\ [][NextDatabase]_vars

\* --------------------------------------------------------------- claims
\* The descriptors of the batch, once every manifest has been read.
AllValid == first_bad_manifest(files) = 0
Batch == metadata_of(files)
Descriptors == 1..Len(files)

\* capabilities(d) = {d.name, d.source} | d.implements
capabilities(d) == {d.name, d.source} \cup d.implements

\* The edge d -> e of the dependency graph: e is another descriptor whose
\* capability set holds an entry of d.requires.
Edge(d, e) == d # e /\ capabilities(Batch[e]) \cap Batch[d].requires # {}

\* e is reached from d by at most n edges.
RECURSIVE Reaches(_, _, _)
Reaches(d, e, n) ==
    \/ Edge(d, e)
    \/ n > 1 /\ \E f \in Descriptors : Edge(d, f) /\ Reaches(f, e, n - 1)

HasCycle == \E d \in Descriptors : Reaches(d, d, Len(files))

\* load_all got to its for loop: load_order returned an order.
Scheduled == pc # "start" /\ error.kind \in {"none", "entrypoint"}

\* The place of a descriptor in the load order.
Place(d) == CHOOSE k \in 1..Len(order) : order[k] = paths(files)[d]

\* The paths of the registered extensions.
Registered == {extensions[k].path : k \in 1..Len(extensions)}

\* The rearrangements of a batch.
Perms(n) == {f \in [1..n -> 1..n] : \A i, j \in 1..n : f[i] = f[j] => i = j}
Permuted(fs, f) == [i \in 1..Len(fs) |-> fs[f[i]]]

\* The capability sets of the batch are pairwise disjoint.
Disjoint ==
    \A d, e \in Descriptors :
        d # e => capabilities(Batch[d]) \cap capabilities(Batch[e]) = {}

\* C1: for an acyclic batch, the order load_all computes places e strictly
\* before d for every edge d -> e (stated for the batches without a capability
\* collision).
C1_OrderRespectsEdges ==
    (Scheduled /\ AllValid /\ Disjoint /\ ~HasCycle) =>
        \A d, e \in Descriptors : Edge(d, e) => Place(e) < Place(d)

\* C2: extensions are instantiated in scheduler order, and when the entry
\* point of d starts, every other descriptor satisfying an entry of
\* d.requires is already instantiated and registered (stated for the batches
\* without a capability collision).
C2_RequirementsLoadedFirst ==
    (pc = "exec" /\ Disjoint) =>
        /\ [k \in 1..Len(extensions) |-> extensions[k].path] = SubSeq(order, 1, pos)
        /\ \A d, e \in Descriptors :
              (paths(files)[d] = order[pos] /\ Edge(d, e)) =>
                  /\ paths(files)[e] \in Registered
                  /\ Place(e) < pos

\* C3: a batch with a directed cycle in its requires that reaches scheduling
\* fails with the dependency-cycle error; no order is returned (stated for the
\* batches without a capability collision).
C3_CycleIsRejected ==
    (pc # "start" /\ AllValid /\ Disjoint /\ HasCycle
        /\ error.kind \notin {"unsatisfied", "duplicate"}) =>
            (pc = "raised" /\ error.kind = "cycle" /\ order = <<>>)

\* The requires entries of d that no capability set of the batch holds.
Unmet(d) == Batch[d].requires \ UNION {capabilities(Batch[e]) : e \in Descriptors}

\* C4: a batch in which a requires entry of some descriptor belongs to no
\* capability set makes load_all fail with the unsatisfied-dependency error
\* instead of producing a load order (a batch that collides as well may fail
\* with the duplicate-implementation error).
C4_UnmetIsRejected ==
    (pc # "start" /\ AllValid /\ \E d \in Descriptors : Unmet(d) # {}) =>
        (pc = "raised" /\ error.kind \in {"unsatisfied", "duplicate"} /\ order = <<>>)

\* C5: once load_all is past collision detection, the capability sets of the
\* batch's descriptors are pairwise disjoint.
C5_ScheduledAreDisjoint ==
    (pc # "start" /\ error.kind \in {"none", "cycle", "entrypoint"}) =>
        \A d, e \in Descriptors :
            d # e => capabilities(Batch[d]) \cap capabilities(Batch[e]) = {}

\* C6: two descriptors with the same source, or with overlapping implements
\* lists, make load_all raise the duplicate-implementation error for the
\* shared identity (stated for the batches in which every requires entry is
\* the source or an implements entry of some descriptor).
C6_CollisionFires ==
    \A d, e \in Descriptors :
        (/\ pc # "start" /\ AllValid /\ d # e
         /\ \A f \in Descriptors : Batch[f].requires \subseteq implemented(Batch)
         /\ \/ Batch[d].source = Batch[e].source
            \/ Batch[d].implements \cap Batch[e].implements # {}) =>
            /\ pc = "raised"
            /\ error.kind = "duplicate"
            /\ error.what \cap (({Batch[d].source} \cap {Batch[e].source})
                                  \cup (Batch[d].implements \cap Batch[e].implements)) # {}

\* C7: whether load_all raises the duplicate-implementation error is the same
\* for every rearrangement of the batch.
C7_CollisionIsSymmetric ==
    (pc # "start" /\ error.kind # "entrypoint") =>
        \A f \in Perms(Len(files)) :
            (error.kind = "duplicate") <=> (load_all_raises(Permuted(files, f)) = "duplicate")

\* C8: when the entry point of d raises, load_all ends there: no descriptor
\* after d in the order is registered, and every one before d stays
\* registered, its entry point having returned.
C8_AbortWithoutRollback ==
    error.kind = "entrypoint" =>
        /\ pc = "raised"
        /\ error.who = {order[pos]}
        /\ \A k \in 1..Len(order) :
              /\ k > pos => order[k] \notin Registered
              /\ k < pos => order[k] \in Registered

\* The entry point of the second extension of a batch of two raised.
C8_Witness ==
    /\ pc = "raised"
    /\ error.kind = "entrypoint"
    /\ Len(order) = 2
    /\ pos = 2
    /\ Len(extensions) = 2

\* The identifiers a handle is known by: its name, its source, its implements
\* entries and the aliases added at runtime.
Known(ext) == {ext.name, ext.source} \cup ext.implements \cup ext._aliases

C10_OwnLookup ==
    last.op = "get_extension" =>
        /\ last.res # None =>
                extensions[last.res].path \in {order[k] : k \in {j \in 1..Len(order) : j <= pos}}
        /\ (pc = "exec" /\ last.id \in Known(extensions[Len(extensions)])) =>
                last.res = Len(extensions)

\* A step of add_alias.
AddAliasStep == calls' = calls + 1 /\ last'.op = "add_alias"

\* C11: add_alias(h, a) fails when a is already in the alias set of a
\* registered handle different from h, and then no handle's alias set changes
\* (stated for the batches without a capability collision).
C11_CollidingAliasIsRefused ==
    [][(AddAliasStep /\ Disjoint /\ \E j \in 1..Len(extensions) :
            j # last'.res /\ last'.id \in aliases(extensions[j]))
        => extensions' = extensions]_vars

\* The descriptors of a batch of the revision with `supports`.
ClassesBatch == [i \in 1..Len(files) |-> classes_get_metadata(files[i], TRUE).metadata]

\* C12: a batch whose only peculiarity is a supports entry that no descriptor
\* provides (every manifest is complete, the capability sets are pairwise
\* disjoint, nothing is required) does not make load_all fail.
C12_UnprovidedSupportsIsHarmless ==
    (/\ pc # "start"
     /\ \A d \in Descriptors : ~classes_get_metadata(files[d], TRUE).raises
     /\ \A d, e \in Descriptors :
            d # e => capabilities(ClassesBatch[d]) \cap capabilities(ClassesBatch[e]) = {}
     /\ \A d \in Descriptors : ClassesBatch[d].requires = {}
     /\ \E d \in Descriptors :
            ClassesBatch[d].supports
                \ UNION {capabilities(ClassesBatch[e]) : e \in Descriptors} # {})
        => (pc = "done" /\ error.kind = "none")

\* The soft edge d -> e: e is another descriptor whose capability set holds an
\* entry of the supports list d's manifest declares.
SoftEdge(d, e) ==
    /\ d # e
    /\ "supports" \in files[d].keys
    /\ files[d].supports \cap capabilities(Batch[e]) # {}

\* e is reached from d by at most n soft edges.
RECURSIVE SoftReaches(_, _, _)
SoftReaches(d, e, n) ==
    \/ SoftEdge(d, e)
    \/ n > 1 /\ \E f \in Descriptors : SoftEdge(d, f) /\ SoftReaches(f, e, n - 1)

\* C13: when load_all succeeds on a batch in which d lists in supports an
\* identity of the capability set of another descriptor e, e was loaded
\* before d (stated for the batches without a capability collision and
\* without a cycle of such edges).
C13_SupportedLoadsFirst ==
    (/\ pc = "done"
     /\ Disjoint
     /\ \A d \in Descriptors : ~SoftReaches(d, d, Len(files))) =>
        \A d, e \in Descriptors : SoftEdge(d, e) => Place(e) < Place(d)

\* What a descriptor provides to the dependency check: its source and its
\* implements entries.
provides(d) == {d.source} \cup d.implements

\* An entry of d.requires is provided by d itself and by no other descriptor.
SelfProvided(d) ==
    \E r \in Batch[d].requires :
        /\ r \in capabilities(Batch[d])
        /\ \A e \in Descriptors \ {d} : r \notin capabilities(Batch[e])

DistinctIdentities ==
    \A d, e \in Descriptors :
        d # e => Batch[d].name # Batch[e].name /\ Batch[d].source # Batch[e].source

C15_IdentityHasNoDefault ==
    last.op = "get_metadata" =>
        /\ last.res.raises <=> ~({"name", "source"} \subseteq files[1].keys)
        /\ ~last.res.raises =>
              /\ last.res.metadata.name = files[1].name
              /\ last.res.metadata.source = files[1].source

\* A manifest declaring a source and no name was read with the defaults
\* enabled, and the read raised.
C15_Witness ==
    /\ last.op = "get_metadata"
    /\ last.id = TRUE
    /\ "name" \notin files[1].keys
    /\ "source" \in files[1].keys
    /\ last.res.raises

\* The documented defaults of the optional keys (the placeholder texts of
\* summary and description are those of the source).
DocumentedDefaults ==
    [author |-> "Unknown",
     version |-> "<unknown>",
     license |-> "No license",
     summary |-> "No summary provided.",
     description |-> "No description provided.",
     requires |-> {},
     supports |-> {},
     implements |-> {}]

C17_StoragePathDenotesDirectory ==
    last.op = "storage_path" =>
        /\ last.res = extension_data_path \o "/" \o get_hash(extensions[last.id].source)
        /\ last.res \in storage

\* C18: when load_all has failed with a metadata, duplicate-implementation,
\* unsatisfied-dependency or dependency-cycle error, no load order was handed
\* to the loading loop and the registry is what it was before the call:
\* empty.
C18_ValidationErrorsLoadNothing ==
    error.kind \in {"metadata", "duplicate", "unsatisfied", "cycle"} =>
        /\ pc = "raised"
        /\ order = <<>>
        /\ extensions = <<>>

\* load_all failed on a batch of two manifests, the first of which requires
\* nothing: with the unsatisfied-dependency error.
C18_Witness ==
    /\ pc = "raised"
    /\ error.kind = "unsatisfied"
    /\ Len(files) = 2
    /\ files[1].requires = {}
    /\ extensions = <<>>

\* The paths whose entry point ran to completion: those before the place the
\* loading loop is at.
Completed == {order[k] : k \in {j \in 1..Len(order) : j < pos}}

\* C19: at the end of a load_all, successful or aborted, every handle in the
\* registry belongs to a descriptor whose entry point ran to completion, and
\* the descriptor whose entry point raised has no handle in the registry.
C19_RegisteredOnlyOnSuccess ==
    pc \in {"done", "raised"} =>
        /\ Registered \subseteq Completed
        /\ error.kind = "entrypoint" => error.who \cap Registered = {}

\* The batch has both a capability collision and an unsatisfied requires
\* entry.
CollidingAndUnmet ==
    /\ \E d, e \in Descriptors :
          d # e /\ capabilities(Batch[d]) \cap capabilities(Batch[e]) # {}
    /\ \E d \in Descriptors : Unmet(d) # {}

\* C20: a batch with both a capability collision and an unsatisfied requires
\* entry is rejected with the duplicate-implementation error (stated for the
\* batches with pairwise distinct names and sources, whose collision is one
\* of implements entries).
C20_CollisionIsCheckedFirst ==
    (pc # "start" /\ AllValid /\ DistinctIdentities /\ CollidingAndUnmet
        /\ \E d, e \in Descriptors : d # e /\ provides(Batch[d]) \cap provides(Batch[e]) # {}) =>
        (pc = "raised" /\ error.kind = "duplicate")

\* The graph load_order built holds the edge d -> e.
Built(d, e) ==
    \E k \in DOMAIN last.res.built[SchedulerDirs[d]] :
        last.res.built[SchedulerDirs[d]][k] = SchedulerDirs[e]

\* C21: the graph built for a batch holds the edge d -> e exactly when e is
\* another descriptor whose capabilities (name, source, implements) hold an
\* entry of d.requires, already when the batch is given as a list.
C21_EdgesFollowCapabilities ==
    (last.op = "load_order" /\ last.id = "list") =>
        \A d, e \in Descriptors : Built(d, e) <=> Edge(d, e)

\* The paths of a list.
Range(list) == {list[k] : k \in DOMAIN list}

\* How many times the list holds the path.
Occurrences(list, path) == Cardinality({k \in DOMAIN list : list[k] = path})

\* load_order is in or past its while loop.
Scheduling == last.op = "load_order"

\* C22: however many entries of d.requires resolve to e, the graph holds e at
\* most once among d's edges, and exactly once when the batch is a list and
\* e's source or implements satisfy d; so no edge left in the graph points at a
\* descriptor already placed, a descriptor whose targets are all placed has
\* been queued or placed itself, and it has no edge left when load_order
\* raises.
C22_NoMultiEdges ==
    Scheduling =>
        \A d \in Descriptors :
            LET path == SchedulerDirs[d]
                placed == Range(last.res.order)
            IN  /\ \A e \in Descriptors :
                        /\ Occurrences(last.res.built[path], SchedulerDirs[e]) <= 1
                        /\ (last.id = "list" /\ d # e /\ depends_on(Batch[d], Batch[e])) =>
                                Occurrences(last.res.built[path], SchedulerDirs[e]) = 1
                /\ Range(last.res.graph[path]) \cap placed = {}
                /\ Range(last.res.built[path]) \subseteq placed =>
                        /\ path \in Range(last.res.queue) \cup placed
                        /\ last.res.graph[path] = <<>>

\* Two entries of d.requires resolve to e, the list gives d the single edge
\* to e, and load_order returned with e before d.
C22_Witness ==
    /\ Scheduling
    /\ last.id = "list"
    /\ pc = "ordered"
    /\ \E d, e \in Descriptors :
         /\ Cardinality(Batch[d].requires \cap ({Batch[e].source} \cup Batch[e].implements)) >= 2
         /\ last.res.built[SchedulerDirs[d]] = <<SchedulerDirs[e]>>
         /\ \E i, j \in 1..Len(order) :
              i < j /\ order[i] = SchedulerDirs[e] /\ order[j] = SchedulerDirs[d]

\* C23: the descriptors the dependency-cycle error enumerates are those that
\* still have edges in the graph; none of them has been placed in the order.
C23_CycleErrorNamesResidual ==
    (Scheduling /\ pc = "raised" /\ error.kind = "cycle") =>
        /\ error.who = {path \in DOMAIN last.res.graph : last.res.graph[path] # <<>>}
        /\ error.who \cap Range(last.res.order) = {}

\* The list holds every path of the batch exactly once.
EveryDescriptorOnce(list) ==
    /\ Len(list) = Len(files)
    /\ Range(list) = {SchedulerDirs[d] : d \in Descriptors}

\* C24: the while loop of load_order comes to its end, the function returning
\* or raising, and an order it returns holds every descriptor of the batch
\* exactly once.
C24_SchedulerTerminates ==
    /\ [](pc = "ordered" => EveryDescriptorOnce(order))
    /\ (pc = "order") ~> (pc \in {"ordered", "raised"})

\* load_order returned the order of a list of three descriptors with edges.
C24_Witness ==
    /\ pc = "ordered"
    /\ last.id = "list"
    /\ Len(files) = Len(SchedulerDirs)
    /\ \E d \in Descriptors : last.res.built[SchedulerDirs[d]] # <<>>
    /\ EveryDescriptorOnce(order)

Kept(k) ==
    /\ k <= Len(extensions')
    /\ extensions'[k].path = extensions[k].path
    /\ extensions'[k].module = extensions[k].module

\* C25: no step of load_all, get_extension or add_alias removes a handle from
\* the registry or an alias from the alias set of a handle.
C25_RegistryOnlyGrows ==
    [][\A k \in 1..Len(extensions) :
            /\ Kept(k)
            /\ aliases(extensions[k]) \subseteq aliases(extensions'[k])]_vars

\* Two handles were registered, one was given an alias, and after a later
\* lookup both are registered and the alias is in its set.
C25_Witness ==
    /\ last.op = "get_extension"
    /\ calls > 0
    /\ Len(extensions) = Len(ExtensionDirs)
    /\ \E k \in 1..Len(extensions) :
         /\ extensions[k]._aliases # {}
         /\ extensions[k]._aliases \subseteq aliases(extensions[k])

\* C26: hash, source and path of a handle are fixed when it is created, the
\* hash being that of the source alone: no step of load_all, get_extension or
\* add_alias changes them for a handle of the registry, and add_alias(h, a)
\* changes the alias set of no handle other than h.
C26_IdentityIsImmutable ==
    [][\A k \in 1..Len(extensions) :
            /\ Kept(k)
            /\ extensions'[k].hash = extensions[k].hash
            /\ extensions'[k].source = extensions[k].source
            /\ extensions'[k].hash = get_hash(extensions'[k].source)
            /\ \A j \in 1..Len(extensions') :
                 extensions'[j].source = extensions'[k].source
                    => extensions'[j].hash = extensions'[k].hash
            /\ (AddAliasStep /\ k # last'.res) =>
                 aliases(extensions'[k]) = aliases(extensions[k])
            /\ ~AddAliasStep => aliases(extensions'[k]) = aliases(extensions[k])]_vars

\* add_alias was called on one of two registered handles with an identifier
\* the other does not carry, and the other's alias set still lacks it.
C26_Witness ==
    /\ last.op = "add_alias"
    /\ Len(extensions) = Len(ExtensionDirs)
    /\ \E k \in 1..Len(extensions) :
         /\ k # last.res
         /\ last.id \notin aliases(extensions[k])
         /\ last.id \in extensions[last.res]._aliases

\* C28: ready is emitted only when load_all has returned without raising,
\* with every extension of the batch registered and its module executed, and
\* the slots registered through on_ready run then; when load_all raised,
\* ready is not emitted and no slot has run.
C28_ReadyAfterLoadAll ==
    /\ ready.emitted =>
          /\ pc = "ready"
          /\ error.kind = "none"
          /\ pos > Len(order)
          /\ Registered = {paths(files)[d] : d \in Descriptors}
          /\ ready.ran = ready.connected
    /\ ~ready.emitted => ready.ran = {}
    /\ pc = "raised" => ~ready.emitted

\* ready was emitted for a batch of two extensions, and a slot that an entry
\* point registered has run.
C28_Witness ==
    /\ ready.emitted
    /\ Len(extensions) = Len(ExtensionDirs)
    /\ ready.ran # {}

\* A step that assigns to ApplicationState.profile.
SetProfileStep == last'.op = "set_profile" /\ (last' # last \/ profile' # profile)

\* C29: an assignment to ApplicationState.profile made while it is None
\* stores the value; an assignment made later raises AttributeError; and once
\* the profile is set no step changes it.
C29_ProfileIsSetOnce ==
    [][/\ (SetProfileStep /\ profile = NoProfile) =>
            profile' = last'.id /\ last'.res = "stored"
       /\ (SetProfileStep /\ profile # NoProfile) => last'.res = "AttributeError"
       /\ profile # NoProfile => profile' = profile]_vars

\* The profile was set by the callback, and a later assignment of another
\* profile raised AttributeError.
C29_Witness ==
    /\ last.op = "set_profile"
    /\ last.res = "AttributeError"
    /\ profile \in ProfilePaths
    /\ last.id # profile

\* The rows the nickname belongs to.
Owners(nickname) == {rowid \in 1..Len(users) : nickname \in Range(users[rowid])}

\* C30: add_user raises only when one of the given nicknames belongs to a
\* user, and otherwise the row it returns holds the given nicknames; no
\* nickname belongs to two users; and the user find_or_add_user returns for a
\* nickname is the one user the nickname belongs to.
C30_NicknamesAreUnique ==
    /\ \A nickname \in Nicknames : Cardinality(Owners(nickname)) <= 1
    /\ (last.op = "add_user" /\ last.res.raises) =>
            \E k \in 1..Len(last.id) : Owners(last.id[k]) # {}
    /\ (last.op = "add_user" /\ ~last.res.raises) =>
            /\ last.res.rowid \in 1..Len(users)
            /\ users[last.res.rowid] = last.id
    /\ last.op = "find_or_add_user" => Owners(last.id[1]) = {last.res.rowid}

====
